---- MODULE Spec2Model ----
(***************************************************************************)
(* Playback synchronizer of NeuroSync_Player: the hand-over between the    *)
(* default (idle) animation loop and the playback sessions started by      *)
(* run_prepared_animation / run_audio_animation_from_bytes /               *)
(* run_audio_animation, together with the input validation of             *)
(* prepare_facial_data_for_animation and the shutdown hook.                *)
(*                                                                         *)
(* A facial sequence is modelled by the channel counts of its frames: a    *)
(* sequence of naturals, or None.  Every thread of the program is a        *)
(* process of the model; one action is one step of one thread.             *)
(***************************************************************************)
EXTENDS Integers, Sequences, FiniteSets, TLC

\* ---- bounds --------------------------------------------------------------
\* number of play requests issued during a run
MaxPlays == 2
\* longest facial sequence a request carries
MaxFrames == 2
\* channel counts tried are MinChannels - 1 + (0 .. ChannelSpread)
ChannelSpread == 2
\* longest generated sequence and longest gesture clip tried by the blending
\* runs; above the blend window of 32 frames
MaxBlendFrames == 34

\* ---- program constants ---------------------------------------------------
\* generated_runners.py:67  len(generated_facial_data[0]) > 61
MinChannels == 61

\* Python's None as facial data: a value no frame sequence equals
None == << -1 >>
\* None as the result of prepare (encoded data is modelled by its frame count)
NoEncoding == -1
\* None as a thread handle
NoThread == -1
\* no PyFace instance
NoFace == -1

\* generated_runners.py:82: blend_frame_count=32
BlendFrameCount == 32

Plays == 1 .. MaxPlays
\* thread 0 is the idle unit spawned at startup; the idle unit spawned by the
\* resume step of play p is thread p
IdleIds == 0 .. MaxPlays

ChannelCounts == { MinChannels - 1 + k : k \in 0 .. ChannelSpread }

RECURSIVE SeqsUpTo(_)
SeqsUpTo(n) ==
    IF n = 0 THEN { <<>> }
    ELSE LET shorter == SeqsUpTo(n - 1)
         IN  shorter \cup { Append(s, c) : s \in { t \in shorter : Len(t) = n - 1 },
                                           c \in ChannelCounts }

\* the facial data prepare is tried on: nothing, or up to MaxFrames frames
FacialData == { None } \cup SeqsUpTo(MaxFrames)

\* the facial data the requests of the concurrent system carry: inference
\* failure, an empty sequence, one frame at the threshold, one frame above it
RequestData == { None, <<>>, << MinChannels >>, << MinChannels + 1 >> }

EntryPoints == { "process_audio", "run_audio_animation_from_bytes", "run_audio_animation" }

VARIABLES
    queue_lock,                \* 0 when free, else the play holding it
    stop_default_animation,    \* the Event of livelink.animations.default_animation
    socket_connection,         \* "open" | "closed"
    default_animation_thread,  \* the module-level handle of the API modules
    idle,                      \* idle[i]: state of idle unit i
    pc,                        \* pc[p]: position of play p
    fn,                        \* fn[p]: entry point play p came in through
    facial,                    \* facial[p]: generated_facial_data of play p
    encoded,                   \* encoded[p]: NoEncoding or the frame count of the encoded data
    thread_arg,                \* thread_arg[p]: the local default_animation_thread of play p
    start_event,               \* start_event[p]: "none" | "clear" | "set"
    audio_thread,              \* audio_thread[p]
    data_thread,               \* data_thread[p]
    sent,                      \* sent[p]: frames the data thread has written
    result,                    \* result[p]: outcome of the request
    sd,                        \* position of shutdown_event
    py_face,                   \* the module-level PyFace instance of the API modules
    idle_face,                 \* idle_face[i]: the instance idle unit i was started with
    encoding_face,             \* encoding_face[p]: the instance play p encoded against
    emotion_animations,        \* the gesture clips loaded for the dominant emotion
    behind                     \* history: behind[p] = the plays that were Streaming
                               \* when play p was invoked

vars == << queue_lock, stop_default_animation, socket_connection,
           default_animation_thread, idle, pc, fn, facial, encoded, thread_arg,
           start_event, audio_thread, data_thread, sent, result, sd,
           py_face, idle_face, encoding_face, emotion_animations, behind >>

\* the encoding contexts and the gesture library
faces == << py_face, idle_face, encoding_face, emotion_animations >>

shared == << queue_lock, stop_default_animation, socket_connection,
             default_animation_thread, idle >>
units == << start_event, audio_thread, data_thread, sent >>

\* ---- helpers -------------------------------------------------------------
IdleAlive(i) == idle[i] \in { "born", "check", "send" }

\* Thread.is_alive() on a handle that may be None
HandleAlive(h) == h # NoThread /\ IdleAlive(h)

UnitOver(s) == s \in { "unborn", "done", "failed" }
UnitAlive(s) == s \notin { "unborn", "done", "failed" }

\* mutant: the channel threshold compared with >= instead of >
ValidFacialDataInclusive(d) ==
    /\ d # None
    /\ Len(d) > 0
    /\ d[1] >= MinChannels

\* generated_runners.py:65-67 and 139-141: the validation expression
ValidFacialData(d) ==
    /\ d # None
    /\ Len(d) > 0
    /\ d[1] > MinChannels

\* ---- startup -------------------------------------------------------------
\* state after startup_event: py_face and the socket exist and the first
\* default_animation_loop thread has been started
Init ==
    /\ queue_lock = 0
    /\ stop_default_animation = FALSE
    /\ socket_connection = "open"
    /\ default_animation_thread = 0
    /\ idle = [ i \in IdleIds |-> IF i = 0 THEN "born" ELSE "unborn" ]
    /\ pc = [ p \in Plays |-> "notcalled" ]
    /\ fn = [ p \in Plays |-> "none" ]
    /\ facial = [ p \in Plays |-> None ]
    /\ encoded = [ p \in Plays |-> NoEncoding ]
    /\ thread_arg = [ p \in Plays |-> NoThread ]
    /\ start_event = [ p \in Plays |-> "none" ]
    /\ audio_thread = [ p \in Plays |-> "unborn" ]
    /\ data_thread = [ p \in Plays |-> "unborn" ]
    /\ sent = [ p \in Plays |-> 0 ]
    /\ result = [ p \in Plays |-> "none" ]
    /\ sd = "notcalled"
    /\ py_face = 0
    /\ idle_face = [ i \in IdleIds |-> IF i = 0 THEN 0 ELSE NoFace ]
    /\ encoding_face = [ p \in Plays |-> NoFace ]
    /\ emotion_animations = { << MinChannels + 1 >> }
    /\ behind = [ p \in Plays |-> {} ]


\* ---- the states of a session (spec 4.5) -----------------------------------
\* Suspending: the signal is raised and the idle unit is being joined, or the
\* units are being spawned
Suspending(p) == pc[p] \in { "join_idle", "start_audio", "start_data" }
\* Armed: the units are spawned and blocked on the start event
Armed(p) == pc[p] = "set_event"
\* Streaming: the start event is released and the units are not yet joined
Streaming(p) == pc[p] \in { "join_audio", "join_data" }
\* Resuming: the units are joined, the idle loop is about to be restarted
Resuming(p) == pc[p] = "resume"

\* ---- preparation ---------------------------------------------------------
\* livelink.send_to_unreal.pre_encode_facial_data: one encoded frame per
\* facial frame; the encoded data is modelled by its frame count
pre_encode_facial_data(d) == Len(d)

Min(a, b) == IF a <= b THEN a ELSE b

\* generated_runners.py:79-80 / 148-149: random.choice over the clips loaded
\* for the dominant emotion; None when the library has no clip for it
Candidates(library) == IF library = {} THEN { None } ELSE library

\* mutant: the crossfade keeps only the frames it blended
MergeTruncating(d, g, n) ==
    [ i \in 1..Min(n, Min(Len(g), Len(d))) |-> [ channels |-> d[i], blended |-> TRUE ] ]

\* merge_emotion_data_into_facial_data_wrapper: the first
\* min(n, len(g), len(d)) frames are crossfaded with the gesture, the frames
\* beyond are the generated ones unmodified
merge_emotion_data_into_facial_data_wrapper(d, g, n) ==
    [ i \in 1..Len(d) |->
        [ channels |-> d[i], blended |-> i <= Min(n, Min(Len(g), Len(d))) ] ]

\* generated_runners.py:79-83 / 148-152: the sequence handed to the encoder
Blended(d, g) ==
    IF g = None THEN d
    ELSE merge_emotion_data_into_facial_data_wrapper(d, g, BlendFrameCount)

\* mutant: the validation of lines 65-68 dropped
PrepareUnvalidated(d, g) == pre_encode_facial_data(d)

\* generated_runners.py:55-87
prepare_facial_data_for_animation(d, g) ==
    IF ~ValidFacialData(d) THEN NoEncoding
    ELSE pre_encode_facial_data(Blended(d, g))

\* mutant: the encoder is handed the module-level instance
EncodingFaceShared(p) == 0

\* generated_runners.py:86 / 156: encoding_face = initialize_py_face(), an
\* instance created by this call
initialize_py_face(p) == p

\* ---- requests ------------------------------------------------------------
\* a request arrives: chat_receiver.process_audio, wave_to_face_api
\* play_animation (run_audio_animation_from_bytes) or run_audio_animation.
\* The callers pass the module-level default_animation_thread.
Call(p, e, d) ==
    /\ pc[p] = "notcalled"
    /\ sd = "notcalled"
    /\ \A q \in Plays : q < p => pc[q] # "notcalled"
    /\ pc' = [pc EXCEPT ![p] = "entry"]
    /\ fn' = [fn EXCEPT ![p] = e]
    /\ facial' = [facial EXCEPT ![p] = d]
    /\ thread_arg' = [thread_arg EXCEPT ![p] = default_animation_thread]
    /\ behind' = [behind EXCEPT ![p] = { q \in Plays : Streaming(q) }]
    /\ UNCHANGED << shared, units, encoded, result, sd >>
    /\ UNCHANGED faces

\* mutant: the check of the inference result dropped
InferenceNeverFails(d) == FALSE

\* chat_receiver.py:75 / wave_to_face_api.py:81: facial_data is None
InferenceFailed(d) == d = None

\* chat_receiver.py:73-100
ProcessAudio(p) ==
    /\ pc[p] = "entry"
    /\ fn[p] = "process_audio"
    /\ IF InferenceFailed(facial[p])
       THEN /\ result' = [result EXCEPT ![p] = "inference_failed"]
            /\ pc' = [pc EXCEPT ![p] = "returned"]
            /\ UNCHANGED << encoded, fn, encoding_face >>
       ELSE \E g \in Candidates(emotion_animations) :
            LET e == prepare_facial_data_for_animation(facial[p], g)
            IN  /\ encoded' = [encoded EXCEPT ![p] = e]
                /\ IF e = NoEncoding
                   THEN /\ result' = [result EXCEPT ![p] = "rejected"]
                        /\ pc' = [pc EXCEPT ![p] = "returned"]
                        /\ UNCHANGED << fn, encoding_face >>
                   ELSE /\ pc' = [pc EXCEPT ![p] = "suspend"]
                        /\ fn' = [fn EXCEPT ![p] = "run_prepared_animation"]
                        /\ encoding_face' =
                               [encoding_face EXCEPT ![p] = initialize_py_face(p)]
                        /\ UNCHANGED result
    /\ UNCHANGED << shared, units, facial, thread_arg, sd >>
    /\ UNCHANGED << py_face, idle_face, emotion_animations >>
    /\ UNCHANGED behind

\* mutant: the idle loop is told to stop already while the data is prepared
RunFromBytesEager(p) ==
    /\ pc[p] = "entry"
    /\ fn[p] = "run_audio_animation_from_bytes"
    /\ \E g \in Candidates(emotion_animations) :
       LET e == prepare_facial_data_for_animation(facial[p], g)
       IN  /\ encoded' = [encoded EXCEPT ![p] = e]
           /\ IF e = NoEncoding
              THEN /\ result' = [result EXCEPT ![p] = "rejected"]
                   /\ pc' = [pc EXCEPT ![p] = "returned"]
                   /\ UNCHANGED << fn, encoding_face >>
              ELSE /\ pc' = [pc EXCEPT ![p] = "suspend"]
                   /\ fn' = [fn EXCEPT ![p] = "run_prepared_animation"]
                   /\ encoding_face' =
                          [encoding_face EXCEPT ![p] = initialize_py_face(p)]
                   /\ UNCHANGED result
    /\ stop_default_animation' = TRUE
    /\ UNCHANGED << queue_lock, socket_connection, default_animation_thread, idle >>
    /\ UNCHANGED << units, facial, thread_arg, sd >>
    /\ UNCHANGED << py_face, idle_face, emotion_animations >>
    /\ UNCHANGED behind

\* generated_runners.py:121-133
RunFromBytes(p) ==
    /\ pc[p] = "entry"
    /\ fn[p] = "run_audio_animation_from_bytes"
    /\ \E g \in Candidates(emotion_animations) :
       LET e == prepare_facial_data_for_animation(facial[p], g)
       IN  /\ encoded' = [encoded EXCEPT ![p] = e]
           /\ IF e = NoEncoding
              THEN /\ result' = [result EXCEPT ![p] = "rejected"]
                   /\ pc' = [pc EXCEPT ![p] = "returned"]
                   /\ UNCHANGED << fn, encoding_face >>
              ELSE /\ pc' = [pc EXCEPT ![p] = "suspend"]
                   /\ fn' = [fn EXCEPT ![p] = "run_prepared_animation"]
                   /\ encoding_face' =
                          [encoding_face EXCEPT ![p] = initialize_py_face(p)]
                   /\ UNCHANGED result
    /\ UNCHANGED << shared, units, facial, thread_arg, sd >>
    /\ UNCHANGED << py_face, idle_face, emotion_animations >>
    /\ UNCHANGED behind

\* generated_runners.py:139-157: the validation guards only the blending;
\* the encoding runs on whatever was passed in.  Encoding None raises; an
\* empty list encodes to nothing; frames below the channel minimum either
\* raise in the encoder or are encoded.
RunAudioEncode(p) ==
    /\ pc[p] = "entry"
    /\ fn[p] = "run_audio_animation"
    /\ \/ /\ facial[p] # None
          /\ \E g \in Candidates(emotion_animations) :
                encoded' = [encoded EXCEPT ![p] =
                    pre_encode_facial_data(IF ValidFacialData(facial[p])
                                           THEN Blended(facial[p], g)
                                           ELSE facial[p])]
          /\ pc' = [pc EXCEPT ![p] = "suspend"]
          /\ UNCHANGED result
       \/ /\ facial[p] = None \/ (Len(facial[p]) > 0 /\ ~ValidFacialData(facial[p]))
          /\ result' = [result EXCEPT ![p] = "raised"]
          /\ pc' = [pc EXCEPT ![p] = "returned"]
          /\ UNCHANGED encoded
    /\ encoding_face' = [encoding_face EXCEPT ![p] = initialize_py_face(p)]
    /\ UNCHANGED << shared, units, fn, facial, thread_arg, sd >>
    /\ UNCHANGED << py_face, idle_face, emotion_animations >>
    /\ UNCHANGED behind


\* ---- playback: run_prepared_animation and run_audio_animation ------------
\* run_prepared_animation has its audio thread commented out (lines 106,
\* 109, 113); run_audio_animation starts one (lines 166, 169, 174)
HasAudio(p) == fn[p] = "run_audio_animation"

\* mutant: one module-level event shared by all calls
BarrierShared(p) == 1

\* generated_runners.py:104 / 164: start_event = Event(), a fresh object of
\* this call, handed to the threads of this call
BarrierOf(p) == p

Terminated(s) == s \in { "done", "failed" }

\* generated_runners.py:99-100 / 159-160: take queue_lock, raise the signal
Suspend(p) ==
    /\ pc[p] = "suspend"
    /\ queue_lock = 0
    /\ queue_lock' = p
    /\ stop_default_animation' = TRUE
    /\ pc' = [pc EXCEPT ![p] = "join_idle"]
    /\ UNCHANGED << socket_connection, default_animation_thread, idle, units,
                    fn, facial, encoded, thread_arg, result, sd >>
    /\ UNCHANGED behind
    /\ UNCHANGED faces

\* the thread whose termination lets line 101-102 / 161-162 proceed
JoinedHandle(p) == thread_arg[p]

\* generated_runners.py:101-104 / 161-164: join the handle that was passed
\* in if it is alive, leave the with block, create the start event
JoinIdle(p) ==
    /\ pc[p] = "join_idle"
    /\ queue_lock = p
    /\ ~HandleAlive(JoinedHandle(p))
    /\ queue_lock' = 0
    /\ start_event' = [start_event EXCEPT ![BarrierOf(p)] = "clear"]
    /\ pc' = [pc EXCEPT ![p] = IF HasAudio(p) THEN "start_audio" ELSE "start_data"]
    /\ UNCHANGED << stop_default_animation, socket_connection, default_animation_thread,
                    idle, audio_thread, data_thread, sent,
                    fn, facial, encoded, thread_arg, result, sd >>
    /\ UNCHANGED behind
    /\ UNCHANGED faces

\* generated_runners.py:166,169: audio_thread.start()
StartAudio(p) ==
    /\ pc[p] = "start_audio"
    /\ audio_thread' = [audio_thread EXCEPT ![p] = "wait"]
    /\ pc' = [pc EXCEPT ![p] = "start_data"]
    /\ UNCHANGED << shared, start_event, data_thread, sent,
                    fn, facial, encoded, thread_arg, result, sd >>
    /\ UNCHANGED behind
    /\ UNCHANGED faces

\* generated_runners.py:107,110 / 167,170: data_thread.start()
StartData(p) ==
    /\ pc[p] = "start_data"
    /\ data_thread' = [data_thread EXCEPT ![p] = "wait"]
    /\ pc' = [pc EXCEPT ![p] = "set_event"]
    /\ UNCHANGED << shared, start_event, audio_thread, sent,
                    fn, facial, encoded, thread_arg, result, sd >>
    /\ UNCHANGED behind
    /\ UNCHANGED faces

\* generated_runners.py:111 / 172: start_event.set()
SetEvent(p) ==
    /\ pc[p] = "set_event"
    /\ start_event' = [start_event EXCEPT ![BarrierOf(p)] = "set"]
    /\ pc' = [pc EXCEPT ![p] = IF HasAudio(p) THEN "join_audio" ELSE "join_data"]
    /\ UNCHANGED << shared, audio_thread, data_thread, sent,
                    fn, facial, encoded, thread_arg, result, sd >>
    /\ UNCHANGED behind
    /\ UNCHANGED faces

\* mutant: the join waits for a normal completion only
JoinReturnsOnSuccess(s) == s = "done"

\* Thread.join() returns once the thread has ended, normally or by an
\* uncaught exception
JoinReturns(s) == Terminated(s)

\* generated_runners.py:174: audio_thread.join()
JoinAudio(p) ==
    /\ pc[p] = "join_audio"
    /\ JoinReturns(audio_thread[p])
    /\ pc' = [pc EXCEPT ![p] = "join_data"]
    /\ UNCHANGED << shared, units, fn, facial, encoded, thread_arg, result, sd >>
    /\ UNCHANGED behind
    /\ UNCHANGED faces

\* generated_runners.py:114 / 175: data_thread.join()
JoinData(p) ==
    /\ pc[p] = "join_data"
    /\ JoinReturns(data_thread[p])
    /\ pc' = [pc EXCEPT ![p] = "resume"]
    /\ UNCHANGED << shared, units, fn, facial, encoded, thread_arg, result, sd >>
    /\ UNCHANGED behind
    /\ UNCHANGED faces

\* mutant: the resume step forgets stop_default_animation.clear()
SignalLeftRaised == TRUE

\* the value stop_default_animation has when line 119 / 180 starts the thread
SignalAfterResume == FALSE

\* generated_runners.py:116-119 / 177-180: under queue_lock clear the signal
\* and start a new default_animation_loop thread; the handle is assigned to
\* the local parameter, the module-level handle of the caller is untouched
Resume(p) ==
    /\ pc[p] = "resume"
    /\ queue_lock = 0
    /\ stop_default_animation' = SignalAfterResume
    /\ idle' = [idle EXCEPT ![p] = "born"]
    /\ thread_arg' = [thread_arg EXCEPT ![p] = p]
    /\ result' = [result EXCEPT ![p] = "played"]
    /\ pc' = [pc EXCEPT ![p] = "returned"]
    /\ idle_face' = [idle_face EXCEPT ![p] = py_face]
    /\ UNCHANGED << queue_lock, socket_connection, default_animation_thread, units,
                    fn, facial, encoded, sd >>
    /\ UNCHANGED << py_face, encoding_face, emotion_animations >>
    /\ UNCHANGED behind

\* ---- the emission units --------------------------------------------------
\* play_audio_from_path(audio_path, start_event): wait for the event, play
AudioWake(p) ==
    /\ audio_thread[p] = "wait"
    /\ start_event[BarrierOf(p)] = "set"
    /\ audio_thread' = [audio_thread EXCEPT ![p] = "play"]
    /\ UNCHANGED << shared, start_event, data_thread, sent,
                    pc, fn, facial, encoded, thread_arg, result, sd >>
    /\ UNCHANGED behind
    /\ UNCHANGED faces

AudioEnd(p) ==
    /\ audio_thread[p] = "play"
    /\ audio_thread' = [audio_thread EXCEPT ![p] = "done"]
    /\ UNCHANGED << shared, start_event, data_thread, sent,
                    pc, fn, facial, encoded, thread_arg, result, sd >>
    /\ UNCHANGED behind
    /\ UNCHANGED faces

\* the audio device raises while playing: the thread ends with the exception
AudioFail(p) ==
    /\ audio_thread[p] = "play"
    /\ audio_thread' = [audio_thread EXCEPT ![p] = "failed"]
    /\ UNCHANGED << shared, start_event, data_thread, sent,
                    pc, fn, facial, encoded, thread_arg, result, sd >>
    /\ UNCHANGED behind
    /\ UNCHANGED faces

\* send_pre_encoded_data_to_unreal(encoded, start_event, 60, socket): wait
\* for the event, then write the frames one by one, paced at 60 per second
DataWake(p) ==
    /\ data_thread[p] = "wait"
    /\ start_event[BarrierOf(p)] = "set"
    /\ data_thread' = [data_thread EXCEPT ![p] = "ready"]
    /\ UNCHANGED << shared, start_event, audio_thread, sent,
                    pc, fn, facial, encoded, thread_arg, result, sd >>
    /\ UNCHANGED behind
    /\ UNCHANGED faces

\* between two frames: finish when the data is exhausted, else begin the
\* next write; a write on the closed socket raises
DataBegin(p) ==
    /\ data_thread[p] = "ready"
    /\ data_thread' = [data_thread EXCEPT ![p] =
                          IF sent[p] >= encoded[p] THEN "done"
                          ELSE IF socket_connection = "closed" THEN "failed"
                          ELSE "send"]
    /\ UNCHANGED << shared, start_event, audio_thread, sent,
                    pc, fn, facial, encoded, thread_arg, result, sd >>
    /\ UNCHANGED behind
    /\ UNCHANGED faces

\* the write of one frame completes
DataEnd(p) ==
    /\ data_thread[p] = "send"
    /\ data_thread' = [data_thread EXCEPT ![p] = "ready"]
    /\ sent' = [sent EXCEPT ![p] = @ + 1]
    /\ UNCHANGED << shared, start_event, audio_thread,
                    pc, fn, facial, encoded, thread_arg, result, sd >>
    /\ UNCHANGED behind
    /\ UNCHANGED faces

\* the write raises (connection error): the thread ends with the exception
DataFail(p) ==
    /\ data_thread[p] = "send"
    /\ data_thread' = [data_thread EXCEPT ![p] = "failed"]
    /\ UNCHANGED << shared, start_event, audio_thread, sent,
                    pc, fn, facial, encoded, thread_arg, result, sd >>
    /\ UNCHANGED behind
    /\ UNCHANGED faces

\* ---- the idle loop: default_animation_loop(py_face) ----------------------
\* each cycle reads stop_default_animation and leaves when it is set,
\* otherwise writes one frame of the default animation
\* a unit is "born" from Thread.start() until its first read of the signal
IdleCheck(i) ==
    /\ idle[i] \in { "born", "check" }
    /\ idle' = [idle EXCEPT ![i] = IF stop_default_animation THEN "dead" ELSE "send"]
    /\ UNCHANGED << queue_lock, stop_default_animation, socket_connection,
                    default_animation_thread, units,
                    pc, fn, facial, encoded, thread_arg, result, sd >>
    /\ UNCHANGED behind
    /\ UNCHANGED faces

IdleSent(i) ==
    /\ idle[i] = "send"
    /\ idle' = [idle EXCEPT ![i] = "check"]
    /\ UNCHANGED << queue_lock, stop_default_animation, socket_connection,
                    default_animation_thread, units,
                    pc, fn, facial, encoded, thread_arg, result, sd >>
    /\ UNCHANGED behind
    /\ UNCHANGED faces

\* ---- shutdown_event ------------------------------------------------------
\* chat_receiver.py:47-48 / wave_to_face_api.py:53-54
ShutdownSignal ==
    /\ sd = "notcalled"
    /\ IF default_animation_thread # NoThread
       THEN /\ stop_default_animation' = TRUE
            /\ sd' = "join"
       ELSE /\ sd' = "close"
            /\ UNCHANGED stop_default_animation
    /\ UNCHANGED << queue_lock, socket_connection, default_animation_thread, idle,
                    units, pc, fn, facial, encoded, thread_arg, result >>
    /\ UNCHANGED behind
    /\ UNCHANGED faces

\* chat_receiver.py:49 / wave_to_face_api.py:55: default_animation_thread.join()
ShutdownJoin ==
    /\ sd = "join"
    /\ ~IdleAlive(default_animation_thread)
    /\ sd' = "close"
    /\ UNCHANGED << shared, units, pc, fn, facial, encoded, thread_arg, result >>
    /\ UNCHANGED behind
    /\ UNCHANGED faces

\* chat_receiver.py:50-52 / wave_to_face_api.py:56-58: socket_connection.close()
ShutdownClose ==
    /\ sd = "close"
    /\ socket_connection' = "closed"
    /\ sd' = "done"
    /\ UNCHANGED << queue_lock, stop_default_animation, default_animation_thread, idle,
                    units, pc, fn, facial, encoded, thread_arg, result >>
    /\ UNCHANGED behind
    /\ UNCHANGED faces

\* ---- the system ----------------------------------------------------------
PlayStep(p) ==
    \/ ProcessAudio(p)
    \/ RunFromBytes(p)
    \/ RunAudioEncode(p)
    \/ Suspend(p)
    \/ JoinIdle(p)
    \/ StartAudio(p)
    \/ StartData(p)
    \/ SetEvent(p)
    \/ JoinAudio(p)
    \/ JoinData(p)
    \/ Resume(p)

UnitStep(p) ==
    \/ AudioWake(p)
    \/ AudioEnd(p)
    \/ AudioFail(p)
    \/ DataWake(p)
    \/ DataBegin(p)
    \/ DataEnd(p)
    \/ DataFail(p)

IdleStep(i) == IdleCheck(i) \/ IdleSent(i)

Shutdown == ShutdownSignal \/ ShutdownJoin \/ ShutdownClose

Next ==
    \/ \E p \in Plays, e \in EntryPoints, d \in RequestData : Call(p, e, d)
    \/ \E p \in Plays : PlayStep(p)
    \/ \E p \in Plays : UnitStep(p)
    \/ \E i \in IdleIds : IdleStep(i)
    \/ Shutdown

Spec == Init /\ [][Next]_vars

\* threads are scheduled by the operating system: every thread that can take
\* a step eventually takes one.  Requests and stop() need not arrive, and a
\* unit need not fail.
Fairness ==
    /\ \A p \in Plays : WF_vars(PlayStep(p))
    /\ \A p \in Plays : WF_vars(AudioWake(p) \/ AudioEnd(p))
    /\ \A p \in Plays : WF_vars(DataWake(p) \/ DataBegin(p) \/ DataEnd(p))
    /\ \A i \in IdleIds : WF_vars(IdleStep(i))
    /\ WF_vars(ShutdownJoin \/ ShutdownClose)

FairSpec == Spec /\ Fairness

\* one request on any entry point, carrying any facial data up to MaxFrames
\* frames, on the freshly started system
PrepInit ==
    /\ queue_lock = 0
    /\ stop_default_animation = FALSE
    /\ socket_connection = "open"
    /\ default_animation_thread = 0
    /\ idle = [ i \in IdleIds |-> IF i = 0 THEN "born" ELSE "unborn" ]
    /\ pc = [ p \in Plays |-> IF p = 1 THEN "entry" ELSE "notcalled" ]
    /\ fn \in { [ p \in Plays |-> IF p = 1 THEN e ELSE "none" ] : e \in EntryPoints }
    /\ facial \in { [ p \in Plays |-> IF p = 1 THEN d ELSE None ] : d \in FacialData }
    /\ encoded = [ p \in Plays |-> NoEncoding ]
    /\ thread_arg = [ p \in Plays |-> IF p = 1 THEN 0 ELSE NoThread ]
    /\ start_event = [ p \in Plays |-> "none" ]
    /\ audio_thread = [ p \in Plays |-> "unborn" ]
    /\ data_thread = [ p \in Plays |-> "unborn" ]
    /\ sent = [ p \in Plays |-> 0 ]
    /\ result = [ p \in Plays |-> "none" ]
    /\ sd = "notcalled"
    /\ py_face = 0
    /\ idle_face = [ i \in IdleIds |-> IF i = 0 THEN 0 ELSE NoFace ]
    /\ encoding_face = [ p \in Plays |-> NoFace ]
    /\ emotion_animations = { << MinChannels + 1 >> }
    /\ behind = [ p \in Plays |-> {} ]

PrepNext ==
    \/ \E p \in Plays : PlayStep(p)
    \/ \E p \in Plays : UnitStep(p)
    \/ \E i \in IdleIds : IdleStep(i)

PrepSpec == PrepInit /\ [][PrepNext]_vars

\* ---- producers on the rendering transport --------------------------------
\* the units that are inside a write
IdleWriters == { i \in IdleIds : idle[i] = "send" }
SessionWriters == { p \in Plays : data_thread[p] = "send" }

IdleRunning == \E i \in IdleIds : IdleAlive(i)

SessionUnitAlive(p) == UnitAlive(audio_thread[p]) \/ UnitAlive(data_thread[p])

\* C1: single writer - in no reachable state are two producers (idle units
\* and frame-emission units of sessions, in any combination) inside a write
\* to the rendering transport at the same time.
SingleWriter == Cardinality(IdleWriters) + Cardinality(SessionWriters) <= 1

\* C2: the Idle Loop is Running if and only if no session is Armed or
\* Streaming.  The equivalence is read over the settled states of the
\* synchronizer: no play is inside Suspending or Resuming (where by design
\* neither side holds) and stop() has not begun.
IdleIffNoSession ==
    (sd = "notcalled" /\ \A p \in Plays : ~Suspending(p) /\ ~Resuming(p))
        => (IdleRunning <=> ~\E p \in Plays : Armed(p) \/ Streaming(p))

\* a unit of play p has been spawned and play p has not reached Resuming
Spawned(p) ==
    /\ pc[p] \in { "start_data", "set_event", "join_audio", "join_data" }
    /\ audio_thread[p] # "unborn" \/ data_thread[p] # "unborn"

\* C3: a play() invoked while a previous play() was Streaming spawns no
\* emission unit before that previous session has reached Resuming.
LaterPlayBlocks ==
    \A p \in Plays : \A q \in behind[p] :
        Spawned(p) => pc[q] \in { "resume", "returned" }

\* the session of play p is past the spawning of its units
PastSpawn(p) == pc[p] \in { "set_event", "join_audio", "join_data", "resume" }
                   \/ (pc[p] = "returned" /\ result[p] = "played")

\* C6: every play() session spawns two execution units, one for the audio
\* and one for the frames, on every entry point, and does not reach the
\* resume step before both have terminated.
TwoUnitsPerSession ==
    \A p \in Plays :
        /\ PastSpawn(p) => audio_thread[p] # "unborn" /\ data_thread[p] # "unborn"
        /\ (Resuming(p) \/ pc[p] = "returned") /\ PastSpawn(p)
               => Terminated(audio_thread[p]) /\ Terminated(data_thread[p])

\* a unit of play p has begun its emission
AudioEmitting(p) == audio_thread[p] \in { "play", "done", "failed" }
DataEmitting(p) == data_thread[p] \in { "ready", "send", "done", "failed" }

BarrierReleasedAfterSpawn ==
    \A p \in Plays :
        /\ start_event[p] = "set" =>
               data_thread[p] # "unborn" /\ (HasAudio(p) => audio_thread[p] # "unborn")
        /\ (AudioEmitting(p) \/ DataEmitting(p)) => start_event[p] = "set"

BarrierPrivate ==
    \A p \in Plays :
        start_event'[p] # start_event[p] =>
            \/ pc[p] = "join_idle" /\ start_event[p] = "none" /\ start_event'[p] = "clear"
            \/ pc[p] = "set_event" /\ pc'[p] # "set_event"
                  /\ start_event[p] = "clear" /\ start_event'[p] = "set"

\* C7: synchronized start - the start event of a play is released once, by
\* that play only, after all units of the play have been spawned, and no
\* unit of the play emits before the release.
SynchronizedStart == [](BarrierReleasedAfterSpawn) /\ [][BarrierPrivate]_vars

\* a run_audio_animation session streams audio and frames behind its barrier
SynchronizedStartWitness ==
    \E p \in Plays : HasAudio(p) /\ audio_thread[p] = "play" /\ data_thread[p] = "send"

\* C8: once stop() has closed the transport no idle unit and no
\* frame-emission unit is alive (or spawned later).
ClosedTransportIsQuiet ==
    socket_connection = "closed" =>
        /\ \A i \in IdleIds : ~IdleAlive(i)
        /\ \A p \in Plays : ~UnitAlive(data_thread[p])

\* play p came in through a caller that checks the sentinel of prepare
\* (run_prepared_animation is entered from these callers only)
ChecksSentinel(p) ==
    fn[p] \in { "process_audio", "run_audio_animation_from_bytes", "run_prepared_animation" }

NullOrEmpty(d) == d = None \/ d = <<>>

SentinelReturned ==
    \A p \in Plays :
        (ChecksSentinel(p) /\ NullOrEmpty(facial[p]) /\ pc[p] \notin { "notcalled", "entry" })
            => /\ pc[p] = "returned"
               /\ result[p] \in { "rejected", "inference_failed" }
               /\ encoded[p] = NoEncoding
               /\ start_event[p] = "none"
               /\ audio_thread[p] = "unborn" /\ data_thread[p] = "unborn"

SentinelStartsNoSession ==
    \A p \in Plays :
        (ChecksSentinel(p) /\ NullOrEmpty(facial[p]) /\ pc'[p] # pc[p])
            => UNCHANGED << queue_lock, stop_default_animation, idle, socket_connection >>

\* with no other request and no stop() around, the idle loop is still
\* running and the signal is still clear after the rejection
SentinelLeavesIdleRunning ==
    \A p \in Plays :
        (ChecksSentinel(p) /\ NullOrEmpty(facial[p]) /\ pc[p] = "returned")
            => ~stop_default_animation /\ IdleAlive(0) /\ queue_lock = 0

\* C10: prepare on a null or empty sequence yields the sentinel without
\* raising, and the caller that checks it starts no session: the step of
\* the request leaves the stop signal and the idle units as they were, and
\* the idle loop keeps running.
EmptyInputRejected ==
    /\ [](SentinelReturned /\ SentinelLeavesIdleRunning)
    /\ [][SentinelStartsNoSession]_vars

\* an empty sequence has been rejected while the idle loop runs undisturbed
EmptyInputRejectedWitness ==
    \E p \in Plays :
        /\ fn[p] = "run_audio_animation_from_bytes"
        /\ facial[p] = <<>>
        /\ result[p] = "rejected"
        /\ ~stop_default_animation
        /\ IdleAlive(0)

\* ---- liveness of play() --------------------------------------------------
PlaysComplete ==
    \A p \in Plays : (pc[p] # "notcalled") ~> (pc[p] = "returned")

\* every request made has returned, at least one session was played, stop()
\* was not called
AllPlaysReturned ==
    /\ \A p \in Plays : pc[p] \in { "notcalled", "returned" }
    /\ \E p \in Plays : result[p] = "played"
    /\ sd = "notcalled"

BackInIdle ==
    AllPlaysReturned =>
        /\ ~stop_default_animation
        /\ IdleRunning
        /\ \A p \in Plays : ~SessionUnitAlive(p)

\* C4: under fair scheduling every play() that was invoked returns, and once
\* all invoked plays have returned an idle unit is running, the stop signal
\* is cleared and no session unit is alive.
PlayReturnsToIdle == PlaysComplete /\ [](BackInIdle)

\* all MaxPlays sessions were played and the system is idle again
PlayReturnsToIdleWitness ==
    /\ \A p \in Plays : pc[p] = "returned" /\ result[p] = "played"
    /\ sd = "notcalled"
    /\ IdleRunning
    /\ ~stop_default_animation

UnitFailed(p) == audio_thread[p] = "failed" \/ data_thread[p] = "failed"

JoinedBeforeResume ==
    \A p \in Plays :
        (Resuming(p) \/ (pc[p] = "returned" /\ result[p] = "played"))
            => /\ Terminated(data_thread[p])
               /\ HasAudio(p) => Terminated(audio_thread[p])

ResumeRestartsIdle ==
    \A p \in Plays :
        (pc[p] = "resume" /\ pc'[p] # "resume")
            => /\ pc'[p] = "returned"
               /\ ~stop_default_animation'
               /\ idle'[p] = "born"

\* C5: when a unit of a session fails mid-stream, play() still joins every
\* unit of the session, then clears the stop signal and starts a new idle
\* unit, and returns.
EmissionFailureIsolated ==
    /\ [](JoinedBeforeResume)
    /\ [][ResumeRestartsIdle]_vars
    /\ \A p \in Plays : UnitFailed(p) ~> (pc[p] = "returned" /\ result[p] = "played")

\* the audio unit failed, the frames completed, play() returned and its new
\* idle unit runs
EmissionFailureIsolatedWitness ==
    \E p \in Plays :
        /\ HasAudio(p)
        /\ audio_thread[p] = "failed"
        /\ data_thread[p] = "done"
        /\ pc[p] = "returned"
        /\ IdleAlive(p)

\* ---- validation in prepare -----------------------------------------------
\* play p went through prepare_facial_data_for_animation
Prepared(p) ==
    /\ pc[p] \notin { "notcalled", "entry" }
    /\ fn[p] # "run_audio_animation"
    /\ result[p] # "inference_failed"

PrepareRejected(p) ==
    /\ encoded[p] = NoEncoding
    /\ result[p] = "rejected"
    /\ pc[p] = "returned"
    /\ start_event[p] = "none"
    /\ audio_thread[p] = "unborn" /\ data_thread[p] = "unborn"

HasShortFrame(d) == d # None /\ \E k \in 1 .. Len(d) : d[k] <= MinChannels

FirstFrameShort(d) == d # None /\ Len(d) > 0 /\ d[1] <= MinChannels

InferenceFailureStops ==
    \A p \in Plays :
        (fn[p] = "process_audio" /\ facial[p] = None /\ pc[p] \notin { "notcalled", "entry" })
            => /\ pc[p] = "returned"
               /\ result[p] = "inference_failed"
               /\ encoded[p] = NoEncoding
               /\ start_event[p] = "none"
               /\ audio_thread[p] = "unborn" /\ data_thread[p] = "unborn"
               /\ ~stop_default_animation /\ IdleAlive(0) /\ queue_lock = 0
               /\ socket_connection = "open"

InferenceFailureTouchesNothing ==
    \A p \in Plays :
        (fn[p] = "process_audio" /\ facial[p] = None /\ pc'[p] # pc[p])
            => UNCHANGED << shared, units >>

\* C11: when the inference collaborator returns null the request ends with
\* an error result, neither prepare nor play() runs, and the stop signal, the
\* idle unit, the guard and the transport are as they were.
InferenceFailureIsHardStop ==
    /\ [](InferenceFailureStops)
    /\ [][InferenceFailureTouchesNothing]_vars

\* a process_audio request whose inference failed has returned its error
InferenceFailureIsHardStopWitness ==
    \E p \in Plays :
        /\ fn[p] = "process_audio"
        /\ facial[p] = None
        /\ pc[p] = "returned"
        /\ result[p] = "inference_failed"
        /\ IdleAlive(0)

\* ---- blending: frame counts across the blend window -----------------------
\* a sequence of n frames, every frame above the channel minimum
Clip(n) == [ i \in 1..n |-> MinChannels + 1 ]

\* one request at the entry of its handler; the library holds no clip for the
\* dominant emotion, or one clip of any length up to MaxBlendFrames
BlendInit ==
    /\ queue_lock = 0
    /\ stop_default_animation = FALSE
    /\ socket_connection = "open"
    /\ default_animation_thread = 0
    /\ idle = [ i \in IdleIds |-> IF i = 0 THEN "born" ELSE "unborn" ]
    /\ pc = [ p \in Plays |-> IF p = 1 THEN "entry" ELSE "notcalled" ]
    /\ fn \in { [ p \in Plays |-> IF p = 1 THEN e ELSE "none" ] :
                   e \in { "process_audio", "run_audio_animation_from_bytes" } }
    /\ facial \in { [ p \in Plays |-> IF p = 1 THEN Clip(n) ELSE None ] :
                       n \in 1..MaxBlendFrames }
    /\ encoded = [ p \in Plays |-> NoEncoding ]
    /\ thread_arg = [ p \in Plays |-> IF p = 1 THEN 0 ELSE NoThread ]
    /\ start_event = [ p \in Plays |-> "none" ]
    /\ audio_thread = [ p \in Plays |-> "unborn" ]
    /\ data_thread = [ p \in Plays |-> "unborn" ]
    /\ sent = [ p \in Plays |-> 0 ]
    /\ result = [ p \in Plays |-> "none" ]
    /\ sd = "notcalled"
    /\ py_face = 0
    /\ idle_face = [ i \in IdleIds |-> IF i = 0 THEN 0 ELSE NoFace ]
    /\ encoding_face = [ p \in Plays |-> NoFace ]
    /\ emotion_animations \in { {} } \cup { { Clip(k) } : k \in 0..MaxBlendFrames }
    /\ behind = [ p \in Plays |-> {} ]

BlendNext ==
    \/ \E p \in Plays : ProcessAudio(p)
    \/ \E p \in Plays : RunFromBytes(p)

BlendSpec == BlendInit /\ [][BlendNext]_vars

\* C12: for every non-empty valid facial sequence, the sequence handed to the
\* encoder and the encoded sequence have exactly as many frames as the input,
\* with or without a gesture blended in, whatever the gesture's length
\* relative to the blend window and to the input.
BlendKeepsFrameCount ==
    \A p \in Plays :
        (Prepared(p) /\ ValidFacialData(facial[p]))
            => /\ encoded[p] = Len(facial[p])
               /\ \A g \in Candidates(emotion_animations) :
                      Len(Blended(facial[p], g)) = Len(facial[p])

\* a gesture shorter than the window blended into an input longer than it
BlendKeepsFrameCountWitness ==
    \E p \in Plays :
        /\ Prepared(p) /\ ValidFacialData(facial[p])
        /\ Len(facial[p]) > BlendFrameCount
        /\ \E g \in emotion_animations : Len(g) > 0 /\ Len(g) < BlendFrameCount
        /\ encoded[p] = Len(facial[p])

\* ---- requests served one after the other ---------------------------------
\* wave_to_face_api.play_animation runs run_audio_animation_from_bytes inside
\* the handler, so a client that waits for each response issues its requests
\* one after the other: a request arrives only when every earlier one has
\* returned.  No stop() is issued.
SerialCall(p, e, d) ==
    /\ \A q \in Plays : q < p => pc[q] = "returned"
    /\ Call(p, e, d)

SerialNext ==
    \/ \E p \in Plays, e \in EntryPoints, d \in RequestData : SerialCall(p, e, d)
    \/ \E p \in Plays : PlayStep(p)
    \/ \E p \in Plays : UnitStep(p)
    \/ \E i \in IdleIds : IdleStep(i)

SerialSpec == Init /\ [][SerialNext]_vars

\* a session unit of play p is started by this step
UnitSpawnedNow(p) ==
    \/ audio_thread[p] = "unborn" /\ audio_thread'[p] # "unborn"
    \/ data_thread[p] = "unborn" /\ data_thread'[p] # "unborn"

\* C13: in every play(), also one issued after an earlier session has
\* completed and respawned the idle loop, no session emission unit is
\* spawned while an idle unit is alive.
NoUnitSpawnedBesideIdle ==
    [][\A p \in Plays : UnitSpawnedNow(p) => \A i \in IdleIds : ~IdleAlive(i)]_vars

\* C14: at most one idle unit is alive in any reachable state; two sessions
\* finishing one after the other never leave two idle units running.
AtMostOneIdleUnit == Cardinality({ i \in IdleIds : IdleAlive(i) }) <= 1

\* the idle unit started last
NewestIdle == CHOOSE i \in IdleIds :
    /\ idle[i] # "unborn"
    /\ \A j \in IdleIds : idle[j] # "unborn" => j <= i

\* C15: once a session has completed and respawned the idle loop, the handle
\* the engine keeps, the one a later play() or stop() reads, refers to the
\* idle unit that was spawned last.
HandleIsNewestIdle ==
    (\E p \in Plays : result[p] = "played") => default_animation_thread = NewestIdle

\* some operation has raised the signal and waits for unit i to end
SuspendingUnit(i) ==
    \/ \E p \in Plays : pc[p] = "join_idle" /\ JoinedHandle(p) = i
    \/ sd = "join" /\ default_animation_thread = i

\* C16: a new idle unit is spawned with the stop signal cleared and begins
\* running with it cleared: between the clearing and the unit's first read
\* nothing raises the signal, unless it is suspending that same unit.
NewIdleStartsUnstopped ==
    \A i \in IdleIds :
        (idle[i] = "born" /\ stop_default_animation) => SuspendingUnit(i)

\* C17: while any session is armed or streaming the stop signal stays
\* raised; no other play reaching its resume step clears it or spawns an
\* idle unit.
SignalRaisedDuringSession ==
    (\E p \in Plays : Armed(p) \/ Streaming(p)) => stop_default_animation

\* C18: run_audio_animation with null, empty or short-first-frame facial
\* data behaves like run_audio_animation_from_bytes: it ends without
\* encoding anything, without raising the stop signal and without a unit.
RunAudioRejectsInvalid ==
    \A p \in Plays :
        (/\ fn[p] = "run_audio_animation"
         /\ ~ValidFacialData(facial[p])
         /\ pc[p] \notin { "notcalled", "entry" })
            => /\ pc[p] = "returned"
               /\ encoded[p] = NoEncoding
               /\ ~stop_default_animation
               /\ start_event[p] = "none"
               /\ audio_thread[p] = "unborn" /\ data_thread[p] = "unborn"

\* play p runs prepare_facial_data_for_animation in this step
PrepareRuns(p) ==
    /\ pc[p] = "entry" /\ pc'[p] # "entry"
    /\ fn[p] \in { "process_audio", "run_audio_animation_from_bytes" }
    /\ ~(fn[p] = "process_audio" /\ InferenceFailed(facial[p]))

\* C19: prepare leaves the shared playback state unchanged for every input,
\* also while the idle loop or a session of another play is running: lock,
\* stop signal, transport, handle, idle units, start events and session
\* units are what they were.
PrepareTouchesNothing ==
    [][\A p \in Plays : PrepareRuns(p) => UNCHANGED << shared, units >>]_vars

\* a play has prepared its data while the session of an earlier play, which
\* was streaming when the request arrived, is still streaming
PrepareTouchesNothingWitness ==
    \E p \in Plays :
        /\ pc[p] = "suspend" /\ fn[p] = "run_prepared_animation"
        /\ encoded[p] # NoEncoding
        /\ \E q \in behind[p] : Streaming(q) /\ data_thread[q] = "send"

\* the PyFace instances in use
FacesInUse ==
    ({ py_face } \cup { idle_face[i] : i \in IdleIds }
                \cup { encoding_face[p] : p \in Plays }) \ { NoFace }

EncodingFacePrivate ==
    \A p \in Plays :
        encoding_face[p] # NoFace
            => /\ encoding_face[p] # py_face
               /\ \A i \in IdleIds : idle_face[i] # encoding_face[p]
               /\ \A q \in Plays \ { p } : encoding_face[q] # encoding_face[p]

EncodingFaceCreatedByCall ==
    \A p \in Plays :
        encoding_face'[p] # encoding_face[p] => encoding_face'[p] \notin FacesInUse

\* C20: every prepare encodes against an instance created in that call:
\* never the instance handed to the idle loop at startup or at a resume,
\* and never one that another prepare call encodes against.
EncodingFaceIsFresh ==
    /\ [](EncodingFacePrivate)
    /\ [][EncodingFaceCreatedByCall]_vars

\* two plays have encoded and an idle loop has been restarted with py_face
EncodingFaceIsFreshWitness ==
    /\ \A p \in Plays : encoding_face[p] # NoFace /\ encoded[p] # NoEncoding
    /\ \E i \in IdleIds : i # 0 /\ idle_face[i] = py_face


====
